---- MODULE Spec2Model ----
(***************************************************************************)
(* A model of the type-inference core of the KPHP compiler:                *)
(*   - the Key interner of compiler/inferring/key.cpp (string_key,         *)
(*     int_key, any_key, to_string), called by worker threads;             *)
(*   - the flag and generation part of the TypeData lattice node of        *)
(*     compiler/inferring/type-data.h (set_flag, set_flag<error_flag_e>).  *)
(* Pointers are modelled as sequences of length at most one: <<>> is       *)
(* nullptr and <<v>> points to an object holding v.  Strings are sequences *)
(* of character codes.                                                     *)
(***************************************************************************)
EXTENDS Integers, Sequences, FiniteSets, TLC

(***************************************************************************)
(* Bounds of the model.                                                    *)
(***************************************************************************)
\* number of worker threads calling the interner
NumThreads == 2
\* width of the machine int in bits (32 in the build)
IntBits == 4
\* width of the value returned by hash_ll in bits (64 in the build)
HashBits == 2
\* number of increments of n_string_keys_ht the model follows
MaxStringKeys == 2
\* number of TypeData nodes, a chain from the root 1 to the leaf NumNodes
NumNodes == 2
\* number of inc_generation calls the model follows
MaxGeneration == 1
\* number of flag calls the model follows
MaxCalls == 3
NumErrNodes == 3
NumCycleNodes == 2
NumFunctions == 3
MaxTreeOps == 2

Threads == 1..NumThreads

(***************************************************************************)
(* Machine integers.                                                       *)
(***************************************************************************)
Pow2(n) == IF n = 0 THEN 1 ELSE 2 * (2 ^ (n - 1))

IntModulus == Pow2(IntBits)
INT_MIN == -Pow2(IntBits - 1)
INT_MAX == Pow2(IntBits - 1) - 1
UInts == 0..(IntModulus - 1)

\* the conversion (unsigned int)key
ToUnsigned(i) == i % IntModulus
\* storing an unsigned value in an int (two's complement)
ToInt(u) == IF u % IntModulus > INT_MAX THEN (u % IntModulus) - IntModulus ELSE u % IntModulus
\* the division of C, which truncates toward zero
TruncDiv(a, b) == IF a >= 0 THEN a \div b ELSE -((-a) \div b)

(***************************************************************************)
(* Pointers and strings.                                                   *)
(***************************************************************************)
Null == <<>>
New(v) == <<v>>
Deref(p) == p[1]

NUL == 0
\* the strings a single caller asks keys for: "a", "ab" and "a\0b"
StringInputs == {<<97>>, <<97, 98>>, <<97, 0, 98>>}
\* the integers a single caller asks keys for
IntInputs == {INT_MIN, -1, 0, 1, INT_MAX}
\* the strings and integers concurrent callers ask keys for
ConcStrings == {<<97>>, <<97, 0, 98>>}
ConcInts == {-1, 1}

RECURSIVE hash_ll(_)
hash_ll(s) ==
  IF s = <<>> THEN 0
  ELSE (hash_ll(SubSeq(s, 1, Len(s) - 1)) * 31 + s[Len(s)]) % Pow2(HashBits)

Hashes == 0..(Pow2(HashBits) - 1)

\* TSHashTable::at: the node of a hash value
at(hash) == hash

(***************************************************************************)
(* Key ids.                                                                *)
(***************************************************************************)
AnyKeyId == 0
\* line 33 with the ids counted from 0
StringKeyIdFromZero(old_n) == ToInt(old_n * 2)
\* line 33: old_n * 2 + 2
StringKeyId(old_n) == ToInt(old_n * 2 + 2)
\* line 43 with the node chosen by the magnitude of the key
IntHashAbs(key) == IF key < 0 THEN ToUnsigned(-key) ELSE ToUnsigned(key)
\* line 43: the hash is (unsigned int)key
IntHash(key) == ToUnsigned(key)
\* line 49: (unsigned int)key * 2 + 1, stored in the int id
IntKeyId(key) == ToInt(ToUnsigned(key) * 2 + 1)

is_any_key(id) == id = 0
is_int_key(id) == id % 2 = 1
is_string_key(id) == id % 2 = 0 /\ id >= 2

StringIds == {StringKeyId(n) : n \in 0..(MaxStringKeys - 1)}

(***************************************************************************)
(* printf conversions.                                                     *)
(***************************************************************************)
RECURSIVE Digits(_)
\* the decimal digits of a natural number
Digits(n) == IF n < 10 THEN <<48 + n>> ELSE Digits(n \div 10) \o <<48 + (n % 10)>>
\* dl_pstr("%d", n)
FormatD(n) == IF n < 0 THEN <<45>> \o Digits(-n) ELSE Digits(n)

RECURSIVE FormatS(_)
\* dl_pstr("%s", s.c_str()): the characters before the first NUL
FormatS(s) ==
  IF s = <<>> \/ Head(s) = NUL THEN <<>> ELSE <<Head(s)>> \o FormatS(Tail(s))

AnyLabel == <<65, 110, 121>>
\* the outcome of reading a string through a null pointer
Segv == <<-1>>
\* the outcome of dl_unreachable
Unreachable == <<-2>>

VARIABLES
  string_keys_ht,       \* node -> pointer to Key (its id)
  string_key_names_ht,  \* node (an id) -> pointer to string
  n_string_keys_ht,     \* the shared counter
  int_keys_ht,          \* node -> pointer to Key (its id)
  string_lock,          \* node of string_keys_ht -> owner thread, 0 if free
  int_lock,             \* node of int_keys_ht -> owner thread, 0 if free
  pc,                   \* thread -> position
  skey,                 \* thread -> argument of string_key
  ikey,                 \* thread -> argument of int_key
  old_n,                \* thread -> local old_n
  string_returned,      \* history: <<s, id>> for every string_key(s) that returned id
  int_returned,         \* history: <<i, id>> for every int_key(i) that returned id
  any_returned,         \* history: the ids any_key returned
  decoded,              \* history: <<id, str>> for every to_string of a Key id giving str
  crashed               \* a dl_assert failed or a null pointer was read

keyVars == <<string_keys_ht, string_key_names_ht, n_string_keys_ht, int_keys_ht,
             string_lock, int_lock, pc, skey, ikey, old_n,
             string_returned, int_returned, any_returned, decoded, crashed>>

VARIABLES
  flags_,               \* node -> flags_, a bit set
  generation_,          \* node -> generation_
  parent_,              \* node -> parent_, 0 is nullptr
  proxy_error,          \* node -> the value of should_proxy_error_flag_to_parent()
  current_generation_,  \* the current generation of the worker
  aborted,              \* a dl_assert failed
  call,                 \* history: the last flag call
  old_flags,            \* history: flags_ before the last flag call
  old_generation,       \* history: generation_ before the last flag call
  changed,              \* history: the nodes on_changed() ran on during the last flag call
  ncalls                \* number of flag calls made

typeVars == <<flags_, generation_, parent_, proxy_error, current_generation_, aborted,
              call, old_flags, old_generation, changed, ncalls>>

VARIABLES
  cur,                  \* the node set_flag<error_flag_e>(true) is running on, 0 when no call is running
  set_count             \* node -> how many times the running call has executed line 159 on it

propVars == <<cur, set_count>>

VARIABLES
  waitable_types,       \* CodeGenF::waitable_types, shared by the workers
  forkable_types,       \* CodeGenF::forkable_types, shared by the workers
  lock,                 \* the static lock of CodeGenF::execute: 0 (free) or the thread holding it
  dest_dir_synced,      \* the once_flag: "new", "running" or "done"
  cg_pc,                \* thread -> where it is in CodeGenF::execute
  function,             \* thread -> the function it is executing for, 0 if none
  pass_waitable_types,  \* thread -> waitable_types of its CollectForkableTypes pass
  pass_forkable_types,  \* thread -> forkable_types of its pass
  snap,                 \* thread -> the vector contents its running insert() has read
  todo,                 \* the functions not yet given to CodeGenF::execute
  forwarded,            \* the functions passed on to SyncPipeF::execute
  init_dest_dir_runs,   \* how many times G->init_dest_dir() has run
  load_index_runs       \* how many times G->load_index() has run

cgVars == <<waitable_types, forkable_types, lock, dest_dir_synced, cg_pc, function,
            pass_waitable_types, pass_forkable_types, snap, todo, forwarded,
            init_dest_dir_runs, load_index_runs>>

VARIABLES
  type_data,            \* a TypeData with its children: the tree the calls are made on
  type_before,          \* the tree before the last call
  tcall,                \* the last call made on the tree
  found,                \* what the last lookup_at returned
  rev,                  \* the last set_lca done the other way round: the tree merged into a copy of rhs
  tops                  \* number of calls made on the tree

treeVars == <<type_data, type_before, tcall, found, rev, tops>>

\* what the calls of the interner leave alone
nonKeyVars == <<typeVars, propVars, cgVars, treeVars>>
\* what the flag calls leave alone
nonTypeVars == <<keyVars, propVars, cgVars, treeVars>>
\* what the stepped calls of set_error_flag leave alone, besides the fields of the nodes
nonPropVars == <<keyVars, cgVars, treeVars>>
\* what CodeGenF::execute leaves alone
nonCgVars == <<keyVars, typeVars, propVars, treeVars>>
\* what the calls on the tree leave alone
nonTreeVars == <<keyVars, typeVars, propVars, cgVars>>

KeyInit ==
  /\ string_keys_ht = [h \in Hashes |-> Null]
  /\ string_key_names_ht = [id \in StringIds |-> Null]
  /\ n_string_keys_ht = 0
  /\ int_keys_ht = [u \in UInts |-> Null]
  /\ string_lock = [h \in Hashes |-> 0]
  /\ int_lock = [u \in UInts |-> 0]
  /\ pc = [t \in Threads |-> "idle"]
  /\ skey = [t \in Threads |-> <<>>]
  /\ ikey = [t \in Threads |-> 0]
  /\ old_n = [t \in Threads |-> 0]
  /\ string_returned = {}
  /\ int_returned = {}
  /\ any_returned = {}
  /\ decoded = {}
  /\ crashed = FALSE

\* threads that may still increment n_string_keys_ht
Creating == {t \in Threads : pc[t] \in {"sk31", "sk32"}}

(***************************************************************************)
(* Key::string_key                                                         *)
(***************************************************************************)
\* the lookup with the AutoLocker taken before the test of node->data
string_key_lookup_locked(t, s) ==
  /\ ~crashed
  /\ pc[t] = "idle"
  /\ LET node == at(hash_ll(s)) IN
       IF string_keys_ht[node] # Null
       THEN /\ string_lock[node] = 0
            /\ string_returned' = string_returned \cup {<<s, Deref(string_keys_ht[node])>>}
            /\ UNCHANGED <<pc, skey>>
       ELSE /\ n_string_keys_ht + Cardinality(Creating) < MaxStringKeys
            /\ pc' = [pc EXCEPT ![t] = "sk31"]
            /\ skey' = [skey EXCEPT ![t] = s]
            /\ string_returned' = string_returned
  /\ UNCHANGED nonKeyVars
  /\ UNCHANGED <<string_keys_ht, string_key_names_ht, n_string_keys_ht, int_keys_ht,
                 string_lock, int_lock, ikey, old_n, int_returned, any_returned,
                 decoded, crashed>>

\* lines 25-29: look the node up, return the cached Key if there is one
string_key_lookup(t, s) ==
  /\ ~crashed
  /\ pc[t] = "idle"
  /\ LET node == at(hash_ll(s)) IN
       IF string_keys_ht[node] # Null
       THEN /\ string_returned' = string_returned \cup {<<s, Deref(string_keys_ht[node])>>}
            /\ UNCHANGED <<pc, skey>>
       ELSE /\ n_string_keys_ht + Cardinality(Creating) < MaxStringKeys
            /\ pc' = [pc EXCEPT ![t] = "sk31"]
            /\ skey' = [skey EXCEPT ![t] = s]
            /\ string_returned' = string_returned
  /\ UNCHANGED nonKeyVars
  /\ UNCHANGED <<string_keys_ht, string_key_names_ht, n_string_keys_ht, int_keys_ht,
                 string_lock, int_lock, ikey, old_n, int_returned, any_returned,
                 decoded, crashed>>

\* line 31: AutoLocker locker(node)
string_key_lock(t) ==
  /\ ~crashed
  /\ pc[t] = "sk31"
  /\ string_lock[at(hash_ll(skey[t]))] = 0
  /\ string_lock' = [string_lock EXCEPT ![at(hash_ll(skey[t]))] = t]
  /\ pc' = [pc EXCEPT ![t] = "sk32"]
  /\ UNCHANGED nonKeyVars
  /\ UNCHANGED <<string_keys_ht, string_key_names_ht, n_string_keys_ht, int_keys_ht,
                 int_lock, skey, ikey, old_n, string_returned, int_returned,
                 any_returned, decoded, crashed>>

\* the counter read without being incremented
string_key_fetch_no_add(t) ==
  /\ ~crashed
  /\ pc[t] = "sk32"
  /\ old_n' = [old_n EXCEPT ![t] = n_string_keys_ht]
  /\ pc' = [pc EXCEPT ![t] = "sk33"]
  /\ UNCHANGED nonKeyVars
  /\ UNCHANGED <<string_keys_ht, string_key_names_ht, n_string_keys_ht, int_keys_ht,
                 string_lock, int_lock, skey, ikey, string_returned, int_returned,
                 any_returned, decoded, crashed>>

\* line 32: old_n = __sync_fetch_and_add(&n_string_keys_ht, 1)
string_key_fetch_add(t) ==
  /\ ~crashed
  /\ pc[t] = "sk32"
  /\ old_n' = [old_n EXCEPT ![t] = n_string_keys_ht]
  /\ n_string_keys_ht' = n_string_keys_ht + 1
  /\ pc' = [pc EXCEPT ![t] = "sk33"]
  /\ UNCHANGED nonKeyVars
  /\ UNCHANGED <<string_keys_ht, string_key_names_ht, int_keys_ht, string_lock,
                 int_lock, skey, ikey, string_returned, int_returned, any_returned,
                 decoded, crashed>>

\* line 33: node->data = new Key(old_n * 2 + 2)
string_key_new(t) ==
  /\ ~crashed
  /\ pc[t] = "sk33"
  /\ string_keys_ht' = [string_keys_ht EXCEPT ![at(hash_ll(skey[t]))] = New(StringKeyId(old_n[t]))]
  /\ pc' = [pc EXCEPT ![t] = "sk35"]
  /\ UNCHANGED nonKeyVars
  /\ UNCHANGED <<string_key_names_ht, n_string_keys_ht, int_keys_ht, string_lock,
                 int_lock, skey, ikey, old_n, string_returned, int_returned,
                 any_returned, decoded, crashed>>

\* lines 35-37: the name table entry of node->data->id is asserted empty and written
string_key_name(t) ==
  /\ ~crashed
  /\ pc[t] = "sk35"
  /\ LET name_node == at(Deref(string_keys_ht[at(hash_ll(skey[t]))])) IN
       IF string_key_names_ht[name_node] # Null
       THEN /\ crashed' = TRUE
            /\ UNCHANGED <<string_key_names_ht, pc>>
       ELSE /\ string_key_names_ht' = [string_key_names_ht EXCEPT ![name_node] = New(skey[t])]
            /\ pc' = [pc EXCEPT ![t] = "sk39"]
            /\ crashed' = crashed
  /\ UNCHANGED nonKeyVars
  /\ UNCHANGED <<string_keys_ht, n_string_keys_ht, int_keys_ht, string_lock, int_lock,
                 skey, ikey, old_n, string_returned, int_returned, any_returned, decoded>>

\* lines 39-40: return *node->data; the locker releases the node
string_key_return(t) ==
  /\ ~crashed
  /\ pc[t] = "sk39"
  /\ LET node == at(hash_ll(skey[t])) IN
       /\ string_returned' = string_returned \cup {<<skey[t], Deref(string_keys_ht[node])>>}
       /\ string_lock' = [string_lock EXCEPT ![node] = 0]
  /\ pc' = [pc EXCEPT ![t] = "idle"]
  /\ skey' = [skey EXCEPT ![t] = <<>>]
  /\ old_n' = [old_n EXCEPT ![t] = 0]
  /\ UNCHANGED nonKeyVars
  /\ UNCHANGED <<string_keys_ht, string_key_names_ht, n_string_keys_ht, int_keys_ht,
                 int_lock, ikey, int_returned, any_returned, decoded, crashed>>

(***************************************************************************)
(* Key::int_key                                                            *)
(***************************************************************************)
\* lines 42-46: look the node up, return the cached Key if there is one
int_key_lookup(t, i) ==
  /\ ~crashed
  /\ pc[t] = "idle"
  /\ LET node == at(IntHash(i)) IN
       IF int_keys_ht[node] # Null
       THEN /\ int_returned' = int_returned \cup {<<i, Deref(int_keys_ht[node])>>}
            /\ UNCHANGED <<pc, ikey>>
       ELSE /\ pc' = [pc EXCEPT ![t] = "ik48"]
            /\ ikey' = [ikey EXCEPT ![t] = i]
            /\ int_returned' = int_returned
  /\ UNCHANGED nonKeyVars
  /\ UNCHANGED <<string_keys_ht, string_key_names_ht, n_string_keys_ht, int_keys_ht,
                 string_lock, int_lock, skey, old_n, string_returned, any_returned,
                 decoded, crashed>>

\* line 48: AutoLocker locker(node)
int_key_lock(t) ==
  /\ ~crashed
  /\ pc[t] = "ik48"
  /\ int_lock[at(IntHash(ikey[t]))] = 0
  /\ int_lock' = [int_lock EXCEPT ![at(IntHash(ikey[t]))] = t]
  /\ pc' = [pc EXCEPT ![t] = "ik49"]
  /\ UNCHANGED nonKeyVars
  /\ UNCHANGED <<string_keys_ht, string_key_names_ht, n_string_keys_ht, int_keys_ht,
                 string_lock, skey, ikey, old_n, string_returned, int_returned,
                 any_returned, decoded, crashed>>

\* line 49: node->data = new Key((unsigned int)key * 2 + 1)
int_key_new(t) ==
  /\ ~crashed
  /\ pc[t] = "ik49"
  /\ int_keys_ht' = [int_keys_ht EXCEPT ![at(IntHash(ikey[t]))] = New(IntKeyId(ikey[t]))]
  /\ pc' = [pc EXCEPT ![t] = "ik50"]
  /\ UNCHANGED nonKeyVars
  /\ UNCHANGED <<string_keys_ht, string_key_names_ht, n_string_keys_ht, string_lock,
                 int_lock, skey, ikey, old_n, string_returned, int_returned,
                 any_returned, decoded, crashed>>

\* line 50: return *node->data; the locker releases the node
int_key_return(t) ==
  /\ ~crashed
  /\ pc[t] = "ik50"
  /\ LET node == at(IntHash(ikey[t])) IN
       /\ int_returned' = int_returned \cup {<<ikey[t], Deref(int_keys_ht[node])>>}
       /\ int_lock' = [int_lock EXCEPT ![node] = 0]
  /\ pc' = [pc EXCEPT ![t] = "idle"]
  /\ ikey' = [ikey EXCEPT ![t] = 0]
  /\ UNCHANGED nonKeyVars
  /\ UNCHANGED <<string_keys_ht, string_key_names_ht, n_string_keys_ht, int_keys_ht,
                 string_lock, skey, old_n, string_returned, any_returned, decoded,
                 crashed>>

(***************************************************************************)
(* Key::any_key and Key::to_string                                         *)
(***************************************************************************)
\* lines 21-23
any_key(t) ==
  /\ ~crashed
  /\ pc[t] = "idle"
  /\ any_returned' = any_returned \cup {AnyKeyId}
  /\ UNCHANGED nonKeyVars
  /\ UNCHANGED <<string_keys_ht, string_key_names_ht, n_string_keys_ht, int_keys_ht,
                 string_lock, int_lock, pc, skey, ikey, old_n, string_returned,
                 int_returned, decoded, crashed>>

\* the Key ids the callers hold
KeysReturned ==
  {p[2] : p \in string_returned} \cup {p[2] : p \in int_returned} \cup any_returned

\* lines 53-65: the string to_string returns for a Key with this id
to_string_of(id) ==
  IF is_int_key(id) THEN FormatD(TruncDiv(id - 1, 2))
  ELSE IF is_string_key(id)
       THEN IF string_key_names_ht[at(id)] = Null THEN Segv
            ELSE FormatS(Deref(string_key_names_ht[at(id)]))
       ELSE IF is_any_key(id) THEN AnyLabel
       ELSE Unreachable

\* a thread decodes a Key it holds
to_string(t, id) ==
  /\ ~crashed
  /\ pc[t] = "idle"
  /\ id \in KeysReturned
  /\ decoded' = decoded \cup {<<id, to_string_of(id)>>}
  /\ crashed' = (to_string_of(id) \in {Segv, Unreachable})
  /\ UNCHANGED nonKeyVars
  /\ UNCHANGED <<string_keys_ht, string_key_names_ht, n_string_keys_ht, int_keys_ht,
                 string_lock, int_lock, pc, skey, ikey, old_n, string_returned,
                 int_returned, any_returned>>

(***************************************************************************)
(* TypeData: flags and generation stamps                                   *)
(***************************************************************************)
Nodes == 1..NumNodes

write_flag_e == 1
read_flag_e == 2
or_false_flag_e == 4
error_flag_e == 8
PlainFlags == {write_flag_e, read_flag_e, or_false_flag_e}
AllFlags == PlainFlags \cup {error_flag_e}

NoCall == [node |-> 0, flag |-> 0, f |-> FALSE]

\* get_flag<FLAG>(): flags_ & FLAG
get_flag(fl, FLAG) == (fl \div FLAG) % 2 = 1
\* flags_ = FLAG
assign_flag(fl, FLAG) == FLAG
\* flags_ |= FLAG
or_flag(fl, FLAG) == IF get_flag(fl, FLAG) THEN fl ELSE fl + FLAG

\* the dl_assert placed before the test of old_f
set_flag_aborts_unset_too(fl, FLAG, f) == ~f
\* set_flag<FLAG>(f): the dl_assert of line 148 fails
set_flag_aborts(fl, FLAG, f) == get_flag(fl, FLAG) /\ ~f
\* the branch taken whenever f holds
set_flag_sets_again(fl, FLAG, f) == f
\* set_flag<FLAG>(f): the branch of lines 149-152 is taken
set_flag_sets(fl, FLAG, f) == ~get_flag(fl, FLAG) /\ f

\* TypeData::on_changed on node n: the generation stamps after it
on_changed(gen, n) == [gen EXCEPT ![n] = current_generation_]
\* TypeData::should_proxy_error_flag_to_parent on node n
should_proxy_error_flag_to_parent(n) == proxy_error[n]

\* the propagation that does not ask should_proxy_error_flag_to_parent
RECURSIVE set_error_flag_always(_, _)
set_error_flag_always(fl, n) ==
  IF get_flag(fl[n], error_flag_e) THEN fl
  ELSE LET fl1 == [fl EXCEPT ![n] = or_flag(@, error_flag_e)] IN
       IF parent_[n] # 0
       THEN set_error_flag_always(fl1, parent_[n])
       ELSE fl1

RECURSIVE set_error_flag_true(_, _)
\* set_flag<error_flag_e>(true) on node n: the flags of all nodes after the call
set_error_flag_true(fl, n) ==
  IF get_flag(fl[n], error_flag_e) THEN fl
  ELSE LET fl1 == [fl EXCEPT ![n] = or_flag(@, error_flag_e)] IN
       IF parent_[n] # 0 /\ should_proxy_error_flag_to_parent(n)
       THEN set_error_flag_true(fl1, parent_[n])
       ELSE fl1

\* a tree of freshly constructed nodes
TypeInit ==
  /\ flags_ = [n \in Nodes |-> 0]
  /\ current_generation_ = 0
  /\ generation_ = [n \in Nodes |-> 0]
  /\ parent_ = [n \in Nodes |-> n - 1]
  /\ proxy_error \in [Nodes -> BOOLEAN]
  /\ \A n \in Nodes : parent_[n] = 0 => ~proxy_error[n]
  /\ aborted = FALSE
  /\ call = NoCall
  /\ old_flags = flags_
  /\ old_generation = generation_
  /\ changed = {}
  /\ ncalls = 0

\* what every flag call records
Called(n, FLAG, f) ==
  /\ ~aborted
  /\ ncalls < MaxCalls
  /\ ncalls' = ncalls + 1
  /\ call' = [node |-> n, flag |-> FLAG, f |-> f]
  /\ old_flags' = flags_
  /\ old_generation' = generation_
  /\ UNCHANGED <<parent_, proxy_error, current_generation_>>
  /\ UNCHANGED nonTypeVars

\* lines 144-153: the primary template, with on_changed() stamping the node
set_flag(n, FLAG, f) ==
  /\ Called(n, FLAG, f)
  /\ IF set_flag_aborts(flags_[n], FLAG, f)
     THEN /\ aborted' = TRUE
          /\ changed' = {}
          /\ UNCHANGED <<flags_, generation_>>
     ELSE IF set_flag_sets(flags_[n], FLAG, f)
     THEN /\ flags_' = [flags_ EXCEPT ![n] = or_flag(@, FLAG)]
          /\ generation_' = on_changed(generation_, n)
          /\ changed' = {n}
          /\ aborted' = aborted
     ELSE /\ changed' = {}
          /\ UNCHANGED <<flags_, generation_, aborted>>

\* lines 155-165: the specialization for error_flag_e
set_flag_error(n, f) ==
  /\ Called(n, error_flag_e, f)
  /\ flags_' = IF f THEN set_error_flag_true(flags_, n) ELSE flags_
  /\ changed' = {}
  /\ UNCHANGED <<generation_, aborted>>

set_write_flag(n, f) == set_flag(n, write_flag_e, f)
set_read_flag(n, f) == set_flag(n, read_flag_e, f)
set_or_false_flag(n, f) == set_flag(n, or_false_flag_e, f)
set_error_flag(n, f) == set_flag_error(n, f)

\* TypeData::inc_generation
inc_generation ==
  /\ ~aborted
  /\ current_generation_ < MaxGeneration
  /\ current_generation_' = current_generation_ + 1
  /\ call' = NoCall
  /\ old_flags' = flags_
  /\ old_generation' = generation_
  /\ changed' = {}
  /\ UNCHANGED <<flags_, generation_, parent_, proxy_error, aborted, ncalls>>
  /\ UNCHANGED nonTypeVars

FlagNext ==
  \/ \E n \in Nodes, f \in BOOLEAN : set_write_flag(n, f)
  \/ \E n \in Nodes, f \in BOOLEAN : set_read_flag(n, f)
  \/ \E n \in Nodes, f \in BOOLEAN : set_or_false_flag(n, f)
  \/ \E n \in Nodes, f \in BOOLEAN : set_error_flag(n, f)
  \/ inc_generation

\* the TypeData part while only the interner runs
TypeIdle ==
  /\ TypeInit
  /\ \A n \in Nodes : ~proxy_error[n]

(***************************************************************************)
(* TypeData: propagation of the error flag                                 *)
(***************************************************************************)
ErrNodes == 1..NumErrNodes
CycleNodes == 1..NumCycleNodes

\* the nodes whose error flag the last call has set
NewlyFlagged ==
  {n \in DOMAIN flags_ :
     get_flag(flags_[n], error_flag_e) /\ ~get_flag(old_flags[n], error_flag_e)}

\* fresh nodes: flags, stamps and the records of the last call
FreshNodes(N) ==
  /\ flags_ = [n \in N |-> 0]
  /\ current_generation_ = 0
  /\ generation_ = [n \in N |-> 0]
  /\ proxy_error \in [N -> BOOLEAN]
  /\ \A n \in N : parent_[n] = 0 => ~proxy_error[n]
  /\ aborted = FALSE
  /\ call = NoCall
  /\ old_flags = flags_
  /\ old_generation = generation_
  /\ changed = {}
  /\ ncalls = 0

\* no call of set_flag<error_flag_e> is being stepped through
PropIdle ==
  /\ cur = 0
  /\ set_count = <<>>

\* the nodes form a forest: every node is a root or the child of an older node
ErrorInit ==
  /\ parent_ \in {p \in [ErrNodes -> 0..NumErrNodes] : \A n \in ErrNodes : p[n] < n}
  /\ FreshNodes(ErrNodes)

ErrorNext == \E n \in ErrNodes, f \in BOOLEAN : set_error_flag(n, f)

\* line 158: the error flag is set already
error_flag_never_seen(fl) == FALSE
error_flag_is_set(fl) == get_flag(fl, error_flag_e)

\* parent_ is any assignment of back references, cyclic ones included
PropInit ==
  /\ parent_ \in [CycleNodes -> 0..NumCycleNodes]
  /\ FreshNodes(CycleNodes)
  /\ cur = 0
  /\ set_count = [n \in CycleNodes |-> 0]

\* set_error_flag(f) is called on node n: line 156
set_error_flag_enter(n, f) ==
  /\ cur = 0
  /\ cur' = IF f THEN n ELSE 0
  /\ set_count' = [m \in CycleNodes |-> 0]
  /\ call' = [node |-> n, flag |-> error_flag_e, f |-> f]
  /\ old_flags' = flags_
  /\ UNCHANGED <<flags_, generation_, parent_, proxy_error, current_generation_, aborted,
                 old_generation, changed, ncalls>>
  /\ UNCHANGED nonPropVars

\* lines 157-163: one invocation of set_flag<error_flag_e>(true), on node cur
set_error_flag_body ==
  /\ cur # 0
  /\ IF error_flag_is_set(flags_[cur])
     THEN /\ cur' = 0
          /\ UNCHANGED <<flags_, set_count>>
     ELSE /\ flags_' = [flags_ EXCEPT ![cur] = or_flag(@, error_flag_e)]
          /\ set_count' = [set_count EXCEPT ![cur] = IF @ < 2 THEN @ + 1 ELSE 2]
          /\ cur' = IF parent_[cur] # 0 /\ should_proxy_error_flag_to_parent(cur)
                    THEN parent_[cur]
                    ELSE 0
  /\ UNCHANGED <<generation_, parent_, proxy_error, current_generation_, aborted,
                 call, old_flags, old_generation, changed, ncalls>>
  /\ UNCHANGED nonPropVars

PropNext ==
  \/ \E n \in CycleNodes, f \in BOOLEAN : set_error_flag_enter(n, f)
  \/ set_error_flag_body

(***************************************************************************)
(* CodeGenF::execute and its CollectForkableTypes pass                     *)
(***************************************************************************)
Functions == 1..NumFunctions

\* a vertex of a function body: is it an op_func_call, is the callee
\* resumable, the name called, and the type tinf infers for it
Vertex(c, r, name, type) ==
  [op_func_call |-> c, is_resumable |-> r, str_val |-> name, type |-> <<type>>]

\* the bodies of the functions that reach code generation
FunctionBodies ==
  << <<Vertex(TRUE, TRUE, "wait", "A"), Vertex(TRUE, FALSE, "wait_synchronously", "B")>>,
     <<Vertex(TRUE, TRUE, "wait_multi", "C"), Vertex(TRUE, TRUE, "f", "A")>>,
     <<Vertex(TRUE, FALSE, "g", "D"), Vertex(FALSE, FALSE, "", "E")>>,
     <<Vertex(TRUE, TRUE, "wait", "A")>>,
     <<Vertex(TRUE, TRUE, "h", "F")>> >>

\* tinf::get_type(root)
get_type(root) == root.type
\* TypeData::const_read_at(key): the type of the elements under key
const_read_at(type, key) == Append(type, key)

\* lines 37-52: the lists <<waitable_types, forkable_types>> of the pass after root
on_enter_vertex(lists, root) ==
  LET w == lists[1]
      f == lists[2]
  IN IF ~root.op_func_call THEN lists
     ELSE IF root.is_resumable
     THEN IF root.str_val = "wait"
          THEN <<Append(w, get_type(root)), Append(f, get_type(root))>>
          ELSE IF root.str_val = "wait_multi"
          THEN <<Append(w, const_read_at(get_type(root), AnyKeyId)),
                 Append(Append(f, const_read_at(get_type(root), AnyKeyId)), get_type(root))>>
          ELSE <<w, Append(f, get_type(root))>>
     ELSE IF root.str_val = "wait_synchronously"
     THEN <<Append(w, get_type(root)), f>>
     ELSE lists

RECURSIVE run_function_pass(_, _)
\* line 57: the pass enters the vertices of the body in order
run_function_pass(body, lists) ==
  IF body = <<>> THEN lists
  ELSE run_function_pass(Tail(body), on_enter_vertex(lists, Head(body)))

\* the lists a fresh pass collects on function fn
PassLists(fn) == run_function_pass(FunctionBodies[fn], << <<>>, <<>> >>)

\* the state of a CodeGenF that has not collected the functions in todo
CodeGenFresh ==
  /\ waitable_types = <<>>
  /\ forkable_types = <<>>
  /\ lock = 0
  /\ dest_dir_synced = "new"
  /\ cg_pc = [t \in Threads |-> "idle"]
  /\ function = [t \in Threads |-> 0]
  /\ pass_waitable_types = [t \in Threads |-> <<>>]
  /\ pass_forkable_types = [t \in Threads |-> <<>>]
  /\ snap = [t \in Threads |-> <<>>]
  /\ forwarded = {}
  /\ init_dest_dir_runs = 0
  /\ load_index_runs = 0

\* every function is waiting for code generation
CodeGenInit ==
  /\ CodeGenFresh
  /\ todo = Functions

\* no function reaches code generation
CodeGenIdle ==
  /\ CodeGenFresh
  /\ todo = {}

\* lines 55-58: a worker is given function fn, runs the pass and tests its lists
execute_run_pass(t, fn) ==
  /\ cg_pc[t] = "idle"
  /\ fn \in todo
  /\ todo' = todo \ {fn}
  /\ function' = [function EXCEPT ![t] = fn]
  /\ pass_waitable_types' = [pass_waitable_types EXCEPT ![t] = PassLists(fn)[1]]
  /\ pass_forkable_types' = [pass_forkable_types EXCEPT ![t] = PassLists(fn)[2]]
  /\ cg_pc' = [cg_pc EXCEPT ![t] =
                 IF PassLists(fn)[1] # <<>> \/ PassLists(fn)[2] # <<>> THEN "l60" ELSE "l65"]
  /\ UNCHANGED <<waitable_types, forkable_types, lock, dest_dir_synced, snap, forwarded,
                 init_dest_dir_runs, load_index_runs>>
  /\ UNCHANGED nonCgVars

\* the locker that does not wait for the lock to be free
execute_lock_nowait(t) ==
  /\ cg_pc[t] = "l60"
  /\ lock' = t
  /\ cg_pc' = [cg_pc EXCEPT ![t] = "l61"]
  /\ UNCHANGED <<waitable_types, forkable_types, dest_dir_synced, function,
                 pass_waitable_types, pass_forkable_types, snap, todo, forwarded,
                 init_dest_dir_runs, load_index_runs>>
  /\ UNCHANGED nonCgVars

\* lines 59-60: AutoLocker locker(&lock)
execute_lock(t) ==
  /\ cg_pc[t] = "l60"
  /\ lock = 0
  /\ lock' = t
  /\ cg_pc' = [cg_pc EXCEPT ![t] = "l61"]
  /\ UNCHANGED <<waitable_types, forkable_types, dest_dir_synced, function,
                 pass_waitable_types, pass_forkable_types, snap, todo, forwarded,
                 init_dest_dir_runs, load_index_runs>>
  /\ UNCHANGED nonCgVars

\* line 61: insert() reads the elements of waitable_types up to end()
insert_waitable_read(t) ==
  /\ cg_pc[t] = "l61"
  /\ snap' = [snap EXCEPT ![t] = waitable_types]
  /\ cg_pc' = [cg_pc EXCEPT ![t] = "l61w"]
  /\ UNCHANGED <<waitable_types, forkable_types, lock, dest_dir_synced, function,
                 pass_waitable_types, pass_forkable_types, todo, forwarded,
                 init_dest_dir_runs, load_index_runs>>
  /\ UNCHANGED nonCgVars

\* line 61: insert() stores the elements followed by those of the pass
insert_waitable_write(t) ==
  /\ cg_pc[t] = "l61w"
  /\ waitable_types' = snap[t] \o pass_waitable_types[t]
  /\ cg_pc' = [cg_pc EXCEPT ![t] = "l62"]
  /\ UNCHANGED <<forkable_types, lock, dest_dir_synced, function, pass_waitable_types,
                 pass_forkable_types, snap, todo, forwarded, init_dest_dir_runs,
                 load_index_runs>>
  /\ UNCHANGED nonCgVars

\* line 62: insert() reads the elements of forkable_types up to end()
insert_forkable_read(t) ==
  /\ cg_pc[t] = "l62"
  /\ snap' = [snap EXCEPT ![t] = forkable_types]
  /\ cg_pc' = [cg_pc EXCEPT ![t] = "l62w"]
  /\ UNCHANGED <<waitable_types, forkable_types, lock, dest_dir_synced, function,
                 pass_waitable_types, pass_forkable_types, todo, forwarded,
                 init_dest_dir_runs, load_index_runs>>
  /\ UNCHANGED nonCgVars

\* line 62: insert() stores the elements followed by those of the pass
insert_forkable_write(t) ==
  /\ cg_pc[t] = "l62w"
  /\ forkable_types' = snap[t] \o pass_forkable_types[t]
  /\ snap' = [snap EXCEPT ![t] = <<>>]
  /\ cg_pc' = [cg_pc EXCEPT ![t] = "l63"]
  /\ UNCHANGED <<waitable_types, lock, dest_dir_synced, function, pass_waitable_types,
                 pass_forkable_types, todo, forwarded, init_dest_dir_runs,
                 load_index_runs>>
  /\ UNCHANGED nonCgVars

\* line 63: the locker goes out of scope
execute_unlock(t) ==
  /\ cg_pc[t] = "l63"
  /\ lock' = 0
  /\ cg_pc' = [cg_pc EXCEPT ![t] = "l65"]
  /\ UNCHANGED <<waitable_types, forkable_types, dest_dir_synced, function,
                 pass_waitable_types, pass_forkable_types, snap, todo, forwarded,
                 init_dest_dir_runs, load_index_runs>>
  /\ UNCHANGED nonCgVars

\* line 65: std::call_once(dest_dir_synced, ...): the first caller runs the
\* callable, a caller that finds it running waits, later callers return at once
call_once(t) ==
  /\ cg_pc[t] = "l65"
  /\ dest_dir_synced # "running"
  /\ IF dest_dir_synced = "new"
     THEN /\ dest_dir_synced' = "running"
          /\ cg_pc' = [cg_pc EXCEPT ![t] = "l66"]
     ELSE /\ dest_dir_synced' = dest_dir_synced
          /\ cg_pc' = [cg_pc EXCEPT ![t] = "l69"]
  /\ UNCHANGED <<waitable_types, forkable_types, lock, function, pass_waitable_types,
                 pass_forkable_types, snap, todo, forwarded, init_dest_dir_runs,
                 load_index_runs>>
  /\ UNCHANGED nonCgVars

\* line 66: G->init_dest_dir()
init_dest_dir(t) ==
  /\ cg_pc[t] = "l66"
  /\ init_dest_dir_runs' = init_dest_dir_runs + 1
  /\ cg_pc' = [cg_pc EXCEPT ![t] = "l67"]
  /\ UNCHANGED <<waitable_types, forkable_types, lock, dest_dir_synced, function,
                 pass_waitable_types, pass_forkable_types, snap, todo, forwarded,
                 load_index_runs>>
  /\ UNCHANGED nonCgVars

\* lines 67-68: G->load_index(), the callable returns and call_once with it
load_index(t) ==
  /\ cg_pc[t] = "l67"
  /\ load_index_runs' = load_index_runs + 1
  /\ dest_dir_synced' = "done"
  /\ cg_pc' = [cg_pc EXCEPT ![t] = "l69"]
  /\ UNCHANGED <<waitable_types, forkable_types, lock, function, pass_waitable_types,
                 pass_forkable_types, snap, todo, forwarded, init_dest_dir_runs>>
  /\ UNCHANGED nonCgVars

\* lines 69-70: SyncPipeF::execute(function, os), and the pass is destroyed
execute_forward(t) ==
  /\ cg_pc[t] = "l69"
  /\ forwarded' = forwarded \cup {function[t]}
  /\ function' = [function EXCEPT ![t] = 0]
  /\ pass_waitable_types' = [pass_waitable_types EXCEPT ![t] = <<>>]
  /\ pass_forkable_types' = [pass_forkable_types EXCEPT ![t] = <<>>]
  /\ cg_pc' = [cg_pc EXCEPT ![t] = "idle"]
  /\ UNCHANGED <<waitable_types, forkable_types, lock, dest_dir_synced, snap, todo,
                 init_dest_dir_runs, load_index_runs>>
  /\ UNCHANGED nonCgVars

CodeGenNext ==
  \E t \in Threads :
    \/ \E fn \in Functions : execute_run_pass(t, fn)
    \/ execute_lock(t)
    \/ insert_waitable_read(t)
    \/ insert_waitable_write(t)
    \/ insert_forkable_read(t)
    \/ insert_forkable_write(t)
    \/ execute_unlock(t)
    \/ call_once(t)
    \/ init_dest_dir(t)
    \/ load_index(t)
    \/ execute_forward(t)

(***************************************************************************)
(* TypeData: children, lookup_at, write_at and set_lca                     *)
(***************************************************************************)
tp_Unknown == "Unknown"
tp_int == "int"
tp_string == "string"
tp_mixed == "mixed"

\* no class_type_
NoClass == ""
\* class B extends class A; class C is related to neither
ClassA == "A"
ClassB == "B"
ClassC == "C"

\* the keys the children are addressed with: Key::any_key() and Key::int_key(0)
ExplicitKeys == {IntKeyId(0)}
TreeKeys == {AnyKeyId} \cup ExplicitKeys

\* a TypeData without children
NewNode(p, c, fl, gen) ==
  [ptype_ |-> p, class_type_ |-> c, flags_ |-> fl, generation_ |-> gen,
   anykey_value |-> Null, subkeys_values |-> <<>>]

\* TypeData::TypeData(): a node just constructed
FreshNode == NewNode(tp_Unknown, NoClass, 0, current_generation_)

\* TypeData::on_changed on a node of the tree
stamped(n) == [n EXCEPT !.generation_ = current_generation_]

\* TypeData::structured
structured(n) == n.anykey_value # Null \/ DOMAIN n.subkeys_values # {}

\* the child stored under key itself: anykey_value or SubkeysValues::find
own_child(n, key) ==
  IF key = AnyKeyId THEN n.anykey_value
  ELSE IF key \in DOMAIN n.subkeys_values THEN New(n.subkeys_values[key])
  ELSE Null

\* the node with c stored under key
with_child(n, key, c) ==
  IF key = AnyKeyId THEN [n EXCEPT !.anykey_value = New(c)]
  ELSE [n EXCEPT !.subkeys_values =
          [k \in DOMAIN n.subkeys_values \cup {key} |->
             IF k = key THEN c ELSE n.subkeys_values[k]]]

\* the lookup that prefers the any-index child
lookup_at_any_first(n, key) ==
  IF n.anykey_value # Null THEN n.anykey_value ELSE own_child(n, key)
\* TypeData::lookup_at: the keyed child, else the any-index child, else absent
lookup_at(n, key) ==
  IF own_child(n, key) # Null THEN own_child(n, key) ELSE n.anykey_value

\* the write path that returns without materializing the child
write_at_absent(n, key) == n
\* TypeData::write_at / at_force: the node after the child under key is materialized
write_at(n, key) ==
  IF own_child(n, key) # Null THEN n
  ELSE stamped(with_child(n, key, FreshNode))

\* TypeData::make_structured
make_structured(n) == IF structured(n) THEN n ELSE write_at(n, AnyKeyId)

\* the join that keeps the tag of the left operand unless it is unknown
type_lca_left(p, q) == IF p = tp_Unknown THEN q ELSE p
\* the join that promotes every pair of tags
type_lca_promote(p, q) == tp_mixed
\* the join of two primitive tags
type_lca(p, q) ==
  IF p = q THEN p
  ELSE IF p = tp_Unknown THEN q
  ELSE IF q = tp_Unknown THEN p
  ELSE tp_mixed

\* the common ancestor of two class references, NoClass if they are unrelated
class_lca(c, d) ==
  IF c = d THEN c
  ELSE IF c = NoClass THEN d
  ELSE IF d = NoClass THEN c
  ELSE IF {c, d} = {ClassA, ClassB} THEN ClassA
  ELSE NoClass

\* flags_ | new_flags
set_flags(fl, new_flags) ==
  LET or_if(x, F) == IF get_flag(new_flags, F) THEN or_flag(x, F) ELSE x
  IN or_if(or_if(or_if(or_if(fl, write_flag_e), read_flag_e), or_false_flag_e), error_flag_e)

\* the flags of rhs that take part in a merge
merged_flags(fl, save_or_false) ==
  IF save_or_false \/ ~get_flag(fl, or_false_flag_e) THEN fl ELSE fl - or_false_flag_e

\* TypeData::clone
clone(n) == n

RECURSIVE set_lca(_, _, _)
\* TypeData::set_lca(rhs, save_or_false): lhs after rhs is merged into it
set_lca(lhs, rhs, save_or_false) ==
  LET any == IF rhs.anykey_value = Null THEN lhs.anykey_value
             ELSE IF lhs.anykey_value = Null THEN New(clone(Deref(rhs.anykey_value)))
             ELSE New(set_lca(Deref(lhs.anykey_value), Deref(rhs.anykey_value), save_or_false))
      sub == [k \in DOMAIN lhs.subkeys_values \cup DOMAIN rhs.subkeys_values |->
                IF k \notin DOMAIN rhs.subkeys_values THEN lhs.subkeys_values[k]
                ELSE IF k \notin DOMAIN lhs.subkeys_values THEN clone(rhs.subkeys_values[k])
                ELSE set_lca(lhs.subkeys_values[k], rhs.subkeys_values[k], save_or_false)]
      merged == [ptype_ |-> type_lca(lhs.ptype_, rhs.ptype_),
                 class_type_ |-> class_lca(lhs.class_type_, rhs.class_type_),
                 flags_ |-> set_flags(lhs.flags_, merged_flags(rhs.flags_, save_or_false)),
                 generation_ |-> lhs.generation_,
                 anykey_value |-> any,
                 subkeys_values |-> sub]
  IN IF merged = lhs THEN lhs ELSE stamped(merged)

\* TypeData::set_lca(PrimitiveType): only the tag is joined
set_lca_ptype(n, p) ==
  IF type_lca(n.ptype_, p) = n.ptype_ THEN n
  ELSE stamped([n EXCEPT !.ptype_ = type_lca(n.ptype_, p)])

\* TypeData::set_lca_at for a path of one key: the join is done at the child under key
set_lca_at(n, key, rhs, save_or_false) ==
  LET n1 == write_at(n, key)
  IN with_child(n1, key, set_lca(Deref(own_child(n1, key)), rhs, save_or_false))

RECURSIVE Structure(_)
\* the tree without its generation stamps
Structure(n) ==
  [ptype_ |-> n.ptype_, class_type_ |-> n.class_type_, flags_ |-> n.flags_,
   anykey_value |-> IF n.anykey_value = Null THEN Null
                    ELSE New(Structure(Deref(n.anykey_value))),
   subkeys_values |-> [k \in DOMAIN n.subkeys_values |-> Structure(n.subkeys_values[k])]]

\* the types merged into the tree
IntLeaf == NewNode(tp_int, NoClass, 0, 0)
StringLeaf == NewNode(tp_string, NoClass, or_false_flag_e, 0)
Leaves == {IntLeaf, StringLeaf}
Operands ==
  Leaves
  \cup {NewNode(tp_Unknown, c, 0, 0) : c \in {ClassB, ClassC}}
  \cup {[l EXCEPT !.anykey_value = New(a)] : l \in Leaves, a \in Leaves}
  \cup {with_child(l, k, c) : l \in Leaves, k \in ExplicitKeys, c \in Leaves}
  \cup {with_child([l EXCEPT !.anykey_value = New(a)], k, c) :
          l \in {IntLeaf}, a \in {StringLeaf}, k \in ExplicitKeys, c \in Leaves}

NoTreeCall == [op |-> "", key |-> AnyKeyId, save_or_false |-> TRUE, rhs |-> Null]

\* a fresh node, no call made on it
TreeInit ==
  /\ type_data = NewNode(tp_Unknown, NoClass, 0, 0)
  /\ type_before = type_data
  /\ tcall = NoTreeCall
  /\ found = Null
  /\ rev = Null
  /\ tops = 0

\* what every call on the tree records
TreeCalled(op, key, save_or_false, rhs) ==
  /\ tops < MaxTreeOps
  /\ tops' = tops + 1
  /\ tcall' = [op |-> op, key |-> key, save_or_false |-> save_or_false, rhs |-> rhs]
  /\ type_before' = type_data
  /\ UNCHANGED nonTreeVars

call_write_at(key) ==
  /\ TreeCalled("write_at", key, TRUE, Null)
  /\ type_data' = write_at(type_data, key)
  /\ UNCHANGED <<found, rev>>

call_make_structured ==
  /\ TreeCalled("make_structured", AnyKeyId, TRUE, Null)
  /\ type_data' = make_structured(type_data)
  /\ UNCHANGED <<found, rev>>

call_lookup_at(key) ==
  /\ TreeCalled("lookup_at", key, TRUE, Null)
  /\ found' = lookup_at(type_data, key)
  /\ UNCHANGED <<type_data, rev>>

\* set_lca(rhs, save_or_false) on the tree; rev is rhs with the tree merged into it
call_set_lca(rhs, save_or_false) ==
  /\ TreeCalled("set_lca", AnyKeyId, save_or_false, New(rhs))
  /\ type_data' = set_lca(type_data, rhs, save_or_false)
  /\ rev' = New(set_lca(rhs, type_data, save_or_false))
  /\ found' = found

call_set_lca_ptype(p) ==
  /\ TreeCalled("set_lca_ptype", AnyKeyId, TRUE, Null)
  /\ type_data' = set_lca_ptype(type_data, p)
  /\ UNCHANGED <<found, rev>>

call_set_lca_at(key, rhs, save_or_false) ==
  /\ TreeCalled("set_lca_at", key, save_or_false, New(rhs))
  /\ type_data' = set_lca_at(type_data, key, rhs, save_or_false)
  /\ UNCHANGED <<found, rev>>

\* set_write_flag(true), set_or_false_flag(true), ... on the root of the tree
call_set_flag(FLAG) ==
  /\ TreeCalled("set_flag", AnyKeyId, TRUE, Null)
  /\ type_data' = IF set_flag_sets(type_data.flags_, FLAG, TRUE)
             THEN stamped([type_data EXCEPT !.flags_ = or_flag(@, FLAG)])
             ELSE type_data
  /\ UNCHANGED <<found, rev>>

\* the global generation advances between calls
tree_inc_generation ==
  /\ current_generation_ < MaxGeneration
  /\ current_generation_' = current_generation_ + 1
  /\ UNCHANGED <<flags_, generation_, parent_, proxy_error, aborted, call, old_flags,
                 old_generation, changed, ncalls>>
  /\ UNCHANGED <<keyVars, propVars, cgVars, treeVars>>

TreeNext ==
  \/ \E key \in TreeKeys : call_write_at(key)
  \/ call_make_structured
  \/ \E key \in TreeKeys : call_lookup_at(key)
  \/ \E rhs \in Operands \cup {type_data}, sof \in BOOLEAN : call_set_lca(rhs, sof)
  \/ \E p \in {tp_int, tp_string} : call_set_lca_ptype(p)
  \/ \E key \in TreeKeys, rhs \in Leaves, sof \in BOOLEAN : call_set_lca_at(key, rhs, sof)
  \/ \E FLAG \in {write_flag_e, or_false_flag_e} : call_set_flag(FLAG)
  \/ tree_inc_generation

\* the steps of one thread creating keys for the strings S and the integers I
CreateStep(t, S, I) ==
  \/ \E s \in S : string_key_lookup(t, s)
  \/ string_key_lock(t)
  \/ string_key_fetch_add(t)
  \/ string_key_new(t)
  \/ string_key_name(t)
  \/ string_key_return(t)
  \/ \E i \in I : int_key_lookup(t, i)
  \/ int_key_lock(t)
  \/ int_key_new(t)
  \/ int_key_return(t)
  \/ any_key(t)

KeyNext == \E t \in Threads : CreateStep(t, ConcStrings, ConcInts)

\* the steps of one thread in string_key for the strings S
StringStep(t, S) ==
  \/ \E s \in S : string_key_lookup(t, s)
  \/ string_key_lock(t)
  \/ string_key_fetch_add(t)
  \/ string_key_new(t)
  \/ string_key_name(t)
  \/ string_key_return(t)

\* the threads call string_key and decode the Keys string_key has returned
DecodeNext ==
  \/ \E t \in Threads : StringStep(t, ConcStrings)
  \/ \E t \in Threads, p \in string_returned : to_string(t, p[2])
SeqNext ==
  \/ CreateStep(1, StringInputs, IntInputs)
  \/ \E id \in KeysReturned : to_string(1, id)

vars == <<keyVars, typeVars, propVars, cgVars, treeVars>>

\* the interner is empty and the nodes are idle
InitKey == KeyInit /\ TypeIdle /\ PropIdle /\ CodeGenIdle /\ TreeInit
\* the nodes are fresh and the interner is idle
InitFlags == KeyInit /\ TypeInit /\ PropIdle /\ CodeGenIdle /\ TreeInit
\* the nodes of a forest are fresh
InitError == KeyInit /\ ErrorInit /\ PropIdle /\ CodeGenIdle /\ TreeInit
\* the nodes are fresh and parent_ is arbitrary
InitProp == KeyInit /\ PropInit /\ CodeGenIdle /\ TreeInit
\* the worker threads are about to generate code for the functions
InitCodeGen == KeyInit /\ TypeIdle /\ PropIdle /\ CodeGenInit /\ TreeInit
\* a fresh TypeData is about to be written to and merged
InitTree == KeyInit /\ TypeIdle /\ PropIdle /\ CodeGenIdle /\ TreeInit

\* the worker threads create keys concurrently
SpecKey == InitKey /\ [][KeyNext]_vars
\* one thread creates and decodes keys: every call returns before the next starts
SpecSeq == InitKey /\ [][SeqNext]_vars
\* the worker threads create string keys and decode them concurrently
SpecDecode == InitKey /\ [][DecodeNext]_vars
\* the worker threads run CodeGenF::execute on the functions concurrently
SpecCodeGen == InitCodeGen /\ [][CodeGenNext]_vars
\* one worker writes to a TypeData, merges types into it and reads it
SpecTree == InitTree /\ [][TreeNext]_vars
\* one worker makes flag calls on the nodes of a tree
SpecFlags == InitFlags /\ [][FlagNext]_vars
\* one worker calls set_error_flag on the nodes of a forest
SpecError == InitError /\ [][ErrorNext]_vars
\* set_error_flag stepped through invocation by invocation; a call that has
\* started keeps running
SpecProp == InitProp /\ [][PropNext]_vars /\ WF_vars(set_error_flag_body)

(***************************************************************************)
(* Claims about the Key interner                                           *)
(***************************************************************************)

\* C1: all the calls of string_key with the same string, from any threads and
\* under any interleaving, return a Key with the same id
C1_SameStringSameKey ==
  \A p \in string_returned, q \in string_returned : p[1] = q[1] => p[2] = q[2]

\* C2: every call of int_key(i), racing or not, returns the Key whose id is
\* i*2+1 in the arithmetic of the machine int, so all calls with the same i return the same id
C2_SameIntSameKey ==
  \A p \in int_returned : p[2] = ToInt(p[1] * 2 + 1)

\* two threads found the node of the same integer empty: one has created the Key
\* and returned it, the other has overwritten it and is about to return
C2_Witness ==
  \E t \in Threads, p \in int_returned : pc[t] = "ik50" /\ ikey[t] = p[1]

\* C3: in a sequential run string_key(s1) and string_key(s2) return equal Keys
\* if and only if s1 = s2
C3_EqualKeysIffEqualStrings ==
  \A p \in string_returned, q \in string_returned : (p[2] = q[2]) <=> (p[1] = q[1])

\* C4: any_key has id 0, the ids int_key returns are odd, the ids string_key
\* returns are even and at least 2, and no id is returned by two of the three constructors
C4_IdSpacesDisjoint ==
  LET any_ids == any_returned
      int_ids == {p[2] : p \in int_returned}
      string_ids == {p[2] : p \in string_returned}
  IN /\ \A id \in any_ids : id = 0
     /\ \A id \in int_ids : id % 2 = 1
     /\ \A id \in string_ids : id % 2 = 0 /\ id >= 2
     /\ any_ids \cap int_ids = {}
     /\ any_ids \cap string_ids = {}
     /\ int_ids \cap string_ids = {}

\* each of the three constructors has returned a Key, a negative integer and a
\* Key created in a race among them
C4_Witness ==
  /\ any_returned # {}
  /\ \E p \in int_returned : p[1] < 0
  /\ \E p \in string_returned, q \in string_returned : p[1] = q[1] /\ p[2] # q[2]

\* C5: int_key(i) returns the id i*2+1 for every machine integer i, and two
\* different integers never get the same id
C5_IntKeyIdInjective ==
  /\ \A p \in int_returned : p[2] = p[1] * 2 + 1
  /\ \A p \in int_returned, q \in int_returned : p[1] # q[1] => p[2] # q[2]

\* C6: to_string decodes what the constructors encoded: the decimal rendering
\* of i for int_key(i), s for string_key(s), "Any" for any_key()
C6_ToStringInverse ==
  \A d \in decoded :
    /\ \A p \in int_returned : p[2] = d[1] => d[2] = FormatD(p[1])
    /\ \A p \in string_returned : p[2] = d[1] => d[2] = p[1]
    /\ \A id \in any_returned : id = d[1] => d[2] = AnyLabel

(***************************************************************************)
(* Claims about the flags and the generation stamp of TypeData             *)
(***************************************************************************)

\* C7: no flag call clears a flag bit of any node: a flag that is set stays set
C7_FlagsNeverCleared ==
  [][\A n \in Nodes, F \in AllFlags :
       get_flag(flags_[n], F) => get_flag(flags_'[n], F)]_vars

\* a node that had a flag set got another of its flags set by the last call
C7_Witness ==
  /\ ~aborted
  /\ call.node # 0
  /\ call.f
  /\ flags_[call.node] # old_flags[call.node]
  /\ \E F \in AllFlags \ {call.flag} : get_flag(old_flags[call.node], F)

\* C8: set_flag<F>(false) aborts, leaving the flag set, when F is write, read or
\* or_false and is set; it changes nothing and does not abort when F is unset;
\* set_flag<error>(false) never aborts and changes nothing
C8_ClearingFlags ==
  (call.node # 0 /\ ~call.f) =>
    IF call.flag \in PlainFlags /\ get_flag(old_flags[call.node], call.flag)
    THEN aborted /\ flags_ = old_flags
    ELSE ~aborted /\ flags_ = old_flags /\ generation_ = old_generation /\ changed = {}

\* the last call asked to clear a write, read or or_false flag that was set
C8_Witness ==
  /\ aborted
  /\ ~call.f
  /\ call.flag \in PlainFlags
  /\ get_flag(flags_[call.node], call.flag)

\* C9: on_changed() runs on every node that has a flag turned from unset to set
\* by a flag call
C9_ChangeInvokesOnChanged ==
  \A n \in Nodes :
    (\E F \in AllFlags : ~get_flag(old_flags[n], F) /\ get_flag(flags_[n], F))
      => n \in changed

\* C10: set_flag<F>(true) on a set flag and set_flag<F>(false) on an unset flag
\* do not run on_changed() and leave the flags and stamps of all nodes as they
\* were; no flag call lowers a generation stamp
C10_NoChangeNoStamp ==
  /\ (call.node # 0 /\ (call.f <=> get_flag(old_flags[call.node], call.flag)))
       => (changed = {} /\ flags_ = old_flags /\ generation_ = old_generation /\ ~aborted)
  /\ \A n \in Nodes : old_generation[n] <= generation_[n]

\* the last call set a flag that was set, on a node stamped before the current generation
C10_Witness ==
  /\ call.node # 0
  /\ call.f
  /\ call.flag \in PlainFlags
  /\ get_flag(old_flags[call.node], call.flag)
  /\ generation_[call.node] < current_generation_

\* C11: after any sequence of set_error_flag calls on the nodes of a tree, every
\* node that has the error flag, has a parent and satisfies
\* should_proxy_error_flag_to_parent() has a parent with the error flag; and a
\* call sets the flag of a node other than the one it was made on only through
\* a child that satisfies the predicate and was flagged by the same call
C11_ErrorReachesRoot ==
  /\ \A n \in ErrNodes :
       (get_flag(flags_[n], error_flag_e) /\ parent_[n] # 0
          /\ should_proxy_error_flag_to_parent(n))
         => get_flag(flags_[parent_[n]], error_flag_e)
  /\ \A m \in NewlyFlagged \ {call.node} :
       \E c \in NewlyFlagged : parent_[c] = m /\ should_proxy_error_flag_to_parent(c)

\* one call has flagged a node, its parent and its grandparent
C11_Witness ==
  \E n \in ErrNodes :
    /\ call.node = n
    /\ parent_[n] # 0
    /\ parent_[parent_[n]] # 0
    /\ {n, parent_[n], parent_[parent_[n]]} \subseteq NewlyFlagged

(***************************************************************************)
(* Claims about the lock of string_key                                     *)
(***************************************************************************)

\* C12: string_key(s) for a cached s returns without taking a lock and in one
\* step of its own, whoever holds the locks of the buckets: a thread holds a
\* bucket lock only between lines 31 and 39 of a creation, the call for a cached
\* string can always take its step, and a call enters the creation path only
\* when it found the node empty
C12_CachedLookupLockFree ==
  /\ [](\A h \in Hashes :
          string_lock[h] # 0 =>
            /\ pc[string_lock[h]] \in {"sk32", "sk33", "sk35", "sk39"}
            /\ at(hash_ll(skey[string_lock[h]])) = h)
  /\ [](\A t \in Threads, s \in ConcStrings :
          (~crashed /\ pc[t] = "idle" /\ string_keys_ht[at(hash_ll(s))] # Null)
            => ENABLED string_key_lookup(t, s))
  /\ [][\A t \in Threads :
          (pc[t] = "idle" /\ pc'[t] = "sk31")
            => string_keys_ht[at(hash_ll(skey'[t]))] = Null]_vars

\* a thread holds the lock of a bucket, between lines 33 and 39, and the Key it
\* has created there has already been returned to another caller
C12_Witness ==
  \E u \in Threads :
    /\ pc[u] \in {"sk35", "sk39"}
    /\ string_lock[at(hash_ll(skey[u]))] = u
    /\ \E p \in string_returned : p[2] = Deref(string_keys_ht[at(hash_ll(skey[u]))])

(***************************************************************************)
(* Claims about the children of TypeData                                   *)
(***************************************************************************)

\* C13: structured() is false on a fresh node, true after write_at(key) or
\* make_structured(), and once true it stays true after every further
\* write_at, set_lca (merges with leaf types included), set_lca_at and flag call
C13_StructuredMonotone ==
  /\ tops = 0 => ~structured(type_data)
  /\ tcall.op \in {"write_at", "make_structured"} => structured(type_data)
  /\ structured(type_before) => structured(type_data)

\* a leaf type has been merged into a structured node and has changed it
C13_Witness ==
  /\ tcall.op = "set_lca"
  /\ structured(type_before)
  /\ ~structured(Deref(tcall.rhs))
  /\ type_data # type_before

\* C14: set_lca is idempotent: x.set_lca(x), or x.set_lca(a copy of x), with
\* either value of save_or_false, leaves the tag, the class, the flags and the
\* children of x as they were and does not advance a generation stamp
C14_SetLcaIdempotent ==
  (tcall.op = "set_lca" /\ tcall.rhs = New(clone(type_before))) => type_data = type_before

\* a structured node that carries a flag and was stamped in an earlier
\* generation has been merged with itself
C14_Witness ==
  /\ tcall.op = "set_lca"
  /\ tcall.rhs = New(clone(type_before))
  /\ structured(type_before)
  /\ type_before.flags_ # 0
  /\ type_before.generation_ < current_generation_

\* C15 as stated: for all nodes a and b, with either value of save_or_false,
\* merging b into a copy of a and a into a copy of b give the same tag, flags
\* and children, recursively, generation stamps aside
C15_SetLcaCommutative ==
  tcall.op = "set_lca" => Structure(type_data) = Structure(Deref(rev))

\* C15 amended: with save_or_false = true, the default, merging b into a copy
\* of a and a into a copy of b give the same tag, flags and children,
\* recursively, generation stamps aside
C15_SetLcaCommutativeSaving ==
  (tcall.op = "set_lca" /\ tcall.save_or_false)
    => Structure(type_data) = Structure(Deref(rev))

\* two structured nodes with different tags, different flags and different
\* sets of children have been merged, with save_or_false = true
C15_Witness ==
  /\ tcall.op = "set_lca"
  /\ tcall.save_or_false
  /\ type_before.ptype_ # Deref(tcall.rhs).ptype_
  /\ type_before.flags_ # Deref(tcall.rhs).flags_
  /\ type_before.anykey_value # Null
  /\ DOMAIN type_before.subkeys_values # DOMAIN Deref(tcall.rhs).subkeys_values
  /\ type_data.ptype_ = tp_mixed

\* C16: lookup_at(key) changes nothing, neither children nor flags nor
\* stamps, and returns the child stored under key if there is one, else the
\* any-index child if there is one, else absent
C16_LookupReadOnly ==
  tcall.op = "lookup_at" =>
    /\ type_data = type_before
    /\ tcall.key \in DOMAIN type_before.subkeys_values
         => found = New(type_before.subkeys_values[tcall.key])
    /\ (tcall.key \notin DOMAIN type_before.subkeys_values /\ type_before.anykey_value # Null)
         => found = type_before.anykey_value
    /\ (tcall.key \notin DOMAIN type_before.subkeys_values /\ type_before.anykey_value = Null)
         => found = Null

\* a key has been looked up in a node that has a child under that key and a
\* different any-index child
C16_Witness ==
  /\ tcall.op = "lookup_at"
  /\ tcall.key \in DOMAIN type_data.subkeys_values
  /\ type_data.anykey_value # Null
  /\ type_data.anykey_value # New(type_data.subkeys_values[tcall.key])
  /\ found = New(type_data.subkeys_values[tcall.key])

(***************************************************************************)
(* Claims about the name table of the Key interner                         *)
(***************************************************************************)

\* C17: every Key a thread has got from string_key is decodable under every
\* interleaving: whenever to_string has been called on such a Key, the entry of
\* the name table for its id was populated, and it holds the string the Key was
\* requested for
C17_KeysDecodable ==
  \A d \in decoded :
    is_string_key(d[1]) =>
      /\ d[2] # Segv
      /\ \A p \in string_returned :
           p[2] = d[1] => string_key_names_ht[at(d[1])] = New(p[1])

\* C18: the assertion of line 36 never fails: the creations that have passed
\* line 32 hold pairwise different values of the counter, the name table entry
\* of the id a creation has obtained is empty until that creation writes it at
\* line 37, and no entry of the name table is ever overwritten
C18_AssertNeverFails ==
  /\ [](/\ ~crashed
        /\ \A t \in Threads, u \in Threads :
             (t # u /\ pc[t] \in {"sk33", "sk35", "sk39"} /\ pc[u] \in {"sk33", "sk35", "sk39"})
               => old_n[t] # old_n[u]
        /\ \A t \in Threads :
             pc[t] \in {"sk33", "sk35"} => string_key_names_ht[at(StringKeyId(old_n[t]))] = Null)
  /\ [][\A id \in StringIds :
          string_key_names_ht[id] # Null => string_key_names_ht'[id] = string_key_names_ht[id]]_vars

\* two creations have written their entries of the name table, for the same
\* string, and the second is about to return
C18_Witness ==
  \E t \in Threads, id \in StringIds :
    /\ pc[t] = "sk39"
    /\ id # Deref(string_keys_ht[at(hash_ll(skey[t]))])
    /\ string_key_names_ht[id] = New(skey[t])
    /\ string_key_names_ht[at(Deref(string_keys_ht[at(hash_ll(skey[t]))]))] = New(skey[t])

(***************************************************************************)
(* Claims about the recursion of set_error_flag                            *)
(***************************************************************************)

\* C19: a call of set_error_flag(true) terminates whatever parent_ is, cycles
\* of back references included: every invocation that finds the flag unset
\* sets it before it recurses into the parent, so the call sets the flag of a
\* node (runs lines 159-162 on it) at most once, and a call that is running
\* eventually returns
C19_Terminates ==
  /\ [](\A n \in CycleNodes :
          /\ set_count[n] <= 1
          /\ (call.f /\ set_count[n] = 1) <=> n \in NewlyFlagged)
  /\ (cur # 0) ~> (cur = 0)

\* a call has gone round a cycle of at least two nodes and has returned: it
\* flagged the node it was made on and a different node that proxies into it
C19_Witness ==
  /\ cur = 0
  /\ call.f
  /\ call.node \in NewlyFlagged
  /\ \E m \in NewlyFlagged \ {call.node} :
       parent_[m] = call.node /\ should_proxy_error_flag_to_parent(m)

(***************************************************************************)
(* Claims about CodeGenF::execute                                          *)
(***************************************************************************)

\* how many times each element occurs in the list l
Occurrences(l) ==
  [x \in {l[i] : i \in DOMAIN l} |-> Cardinality({i \in DOMAIN l : l[i] = x})]

RECURSIVE Collected(_, _)
\* the lists of the passes of the functions fs, laid end to end: k = 1 the
\* waitable types, k = 2 the forkable types
Collected(fs, k) ==
  IF fs = {} THEN <<>>
  ELSE LET fn == CHOOSE x \in fs : TRUE
       IN PassLists(fn)[k] \o Collected(fs \ {fn}, k)

\* the functions whose pass has been appended to the shared lists
Appended ==
  forwarded \cup {function[t] : t \in {u \in Threads : cg_pc[u] \in {"l63", "l65", "l66", "l67", "l69"}}}

\* C20: CodeGenF::execute loses no collected type: at most one worker is
\* between lines 60 and 63, a worker whose pass collected nothing never is,
\* whenever the lock is free the shared waitable_types and forkable_types hold
\* exactly the elements, with multiplicity, of the lists of the passes appended
\* so far (of all the passes once every worker has returned); init_dest_dir()
\* and load_index() run at most once, and both have run once before any
\* function reaches SyncPipeF::execute
C20_NoTypeLost ==
  /\ \A t \in Threads, u \in Threads :
       (cg_pc[t] \in {"l61", "l61w", "l62", "l62w", "l63"}
          /\ cg_pc[u] \in {"l61", "l61w", "l62", "l62w", "l63"}) => t = u
  /\ \A t \in Threads :
       cg_pc[t] \in {"l60", "l61", "l61w", "l62", "l62w", "l63"}
         => (pass_waitable_types[t] # <<>> \/ pass_forkable_types[t] # <<>>)
  /\ lock = 0 =>
       /\ Occurrences(waitable_types) = Occurrences(Collected(Appended, 1))
       /\ Occurrences(forkable_types) = Occurrences(Collected(Appended, 2))
  /\ (todo = {} /\ \A t \in Threads : cg_pc[t] = "idle") =>
       /\ Occurrences(waitable_types) = Occurrences(Collected(Functions, 1))
       /\ Occurrences(forkable_types) = Occurrences(Collected(Functions, 2))
  /\ init_dest_dir_runs <= 1
  /\ load_index_runs <= 1
  /\ (forwarded # {} \/ \E t \in Threads : cg_pc[t] = "l69") =>
       (init_dest_dir_runs = 1 /\ load_index_runs = 1 /\ dest_dir_synced = "done")

\* every worker has returned, every function has been forwarded, the function
\* whose pass collected nothing among them, and the passes were appended in an
\* order other than the order of the functions
C20_Witness ==
  /\ todo = {}
  /\ \A t \in Threads : cg_pc[t] = "idle"
  /\ forwarded = Functions
  /\ \E fn \in Functions : PassLists(fn) = << <<>>, <<>> >>
  /\ waitable_types # Collected(Functions, 1)
  /\ \E i \in DOMAIN forkable_types, j \in DOMAIN forkable_types :
       i # j /\ forkable_types[i] = forkable_types[j]
====
